---- MODULE Spec2Model ----
(***************************************************************************)
(* A model of flake8's commit hooks: git_hook of flake8/hooks.py (staging  *)
(* of the index-recorded files into a temporary directory, checking, and   *)
(* cleanup) and main, git_hook, hg_hook, check_file and check_code of      *)
(* flake8/run.py.                                                          *)
(*                                                                         *)
(* Strings the code takes apart (paths, lines of a file, diagnostic codes) *)
(* are sequences of one-character strings; a byte above 0x7F is written as *)
(* a three-character string such as "xE9".                                 *)
(***************************************************************************)
EXTENDS Integers, Sequences, FiniteSets, TLC

\* ------------------------------------------------------------------ bounds

\* Longest list of changed files the VCS backend reports in one run.
MaxFiles == 2
\* Most diagnostics the style guide reports for one staged file.
MaxIssues == 1

\* ------------------------------------------------------- sequence helpers

Slash == "/"
Dot == "."

\* s[:n] and s[n:] of Python, n counted from 0.
Take(s, n) == SubSeq(s, 1, n)
Drop(s, n) == SubSeq(s, n + 1, Len(s))

IsPrefix(p, s) == Len(p) <= Len(s) /\ Take(s, Len(p)) = p

EndsWith(s, suffix) ==
    Len(suffix) <= Len(s) /\ Drop(s, Len(s) - Len(suffix)) = suffix

DotPy == <<".", "p", "y">>

\* ------------------------------------------------------------ os.path

\* os.path.commonprefix of two strings (or of two lists of components): the
\* longest common leading run, compared element by element.
CommonPrefix(a, b) ==
    LET n == IF Len(a) < Len(b) THEN Len(a) ELSE Len(b)
        agree == {k \in 0..n : \A j \in 1..k : a[j] = b[j]}
    IN  Take(a, CHOOSE k \in agree : \A m \in agree : m <= k)

RECURSIVE SplitOn(_, _)
\* str.split(sep): the pieces between the separators, empty pieces kept.
SplitOn(s, sep) ==
    IF \A j \in 1..Len(s) : s[j] # sep THEN <<s>>
    ELSE LET k == CHOOSE j \in 1..Len(s) :
                      s[j] = sep /\ \A m \in 1..(j - 1) : s[m] # sep
         IN  <<Take(s, k - 1)>> \o SplitOn(Drop(s, k), sep)

\* [x for x in path.split('/') if x]
Components(p) == SelectSeq(SplitOn(p, Slash), LAMBDA c : c # <<>>)

RECURSIVE JoinComps(_)
\* '/'.join(comps)
JoinComps(cs) ==
    IF cs = <<>> THEN <<>>
    ELSE IF Len(cs) = 1 THEN cs[1]
    ELSE cs[1] \o <<Slash>> \o JoinComps(Tail(cs))

DotDot == <<".", ".">>
CurDir == <<".">>

RECURSIVE Collapse(_, _)
\* posixpath.normpath's loop over the components of an absolute path: '.'
\* and '' are dropped, '..' pops the last kept component (and is dropped at
\* the root).
Collapse(cs, kept) ==
    IF cs = <<>> THEN kept
    ELSE IF Head(cs) = CurDir THEN Collapse(Tail(cs), kept)
    ELSE IF Head(cs) = DotDot
         THEN Collapse(Tail(cs),
                       IF kept = <<>> THEN kept ELSE Take(kept, Len(kept) - 1))
    ELSE Collapse(Tail(cs), Append(kept, Head(cs)))

\* The components of posixpath.normpath(p), p absolute.
NormComps(p) == Collapse(Components(p), <<>>)

\* posixpath.normpath(p), p absolute.
Normpath(p) == <<Slash>> \o JoinComps(NormComps(p))

\* posixpath.join(a, b)
PathJoin(a, b) ==
    IF b # <<>> /\ b[1] = Slash THEN b
    ELSE IF a = <<>> \/ a[Len(a)] = Slash THEN a \o b
    ELSE a \o <<Slash>> \o b

\* posixpath.abspath(rel) in the working directory cwd.
Abspath(cwd, rel) == Normpath(PathJoin(cwd, rel))

\* posixpath.split(p), p absolute and normalized: <<head, tail>>.
PathSplit(p) ==
    LET i == CHOOSE j \in 1..Len(p) :
                 p[j] = Slash /\ \A m \in (j + 1)..Len(p) : p[m] # Slash
        head == Take(p, i)
    IN  <<IF i > 1 THEN Take(head, i - 1) ELSE head, Drop(p, i)>>

\* posixpath.relpath(path, start), both absolute.
Relpath(path, start) ==
    LET start_list == NormComps(start)
        path_list == NormComps(path)
        i == Len(CommonPrefix(start_list, path_list))
        rel_list == [k \in 1..(Len(start_list) - i) |-> DotDot]
                        \o Drop(path_list, i)
    IN  IF rel_list = <<>> THEN CurDir ELSE JoinComps(rel_list)

\* ------------------------------------------------- encoding declaration

\* The characters of the model's alphabet that \w matches, and [-\w.].
WordChars == {"c", "o", "d", "i", "n", "g", "l", "u", "z", "x", "p", "y",
              "1", "8", "_"}
NameChars == WordChars \cup {"-", "."}
\* \s
SpaceChars == {" "}

CodingLiteral == <<"c", "o", "d", "i", "n", "g">>

\* None, and the result of a search that found nothing.
NoCoding == <<>>

\* The longest run of characters of `class` that starts at line[q].
RunFrom(line, q, class) ==
    LET ends == {k \in (q - 1)..Len(line) : \A j \in q..k : line[j] \in class}
    IN  SubSeq(line, q, CHOOSE k \in ends : \A m \in ends : m <= k)

\* re.match of coding[=:]\s*([-\w.]+) at position p of the line: the group,
\* or NoCoding when the pattern does not match there.
MatchAt(line, p) ==
    LET sep == p + Len(CodingLiteral)
    IN  IF sep <= Len(line)
           /\ SubSeq(line, p, sep - 1) = CodingLiteral
           /\ line[sep] \in {"=", ":"}
        THEN LET spaces == RunFrom(line, sep + 1, SpaceChars)
             IN  RunFrom(line, sep + 1 + Len(spaces), NameChars)
        ELSE NoCoding

\* re.search(coding_pattern, line): the group of the leftmost match.
ReSearch(line) ==
    LET hits == {p \in 1..Len(line) : MatchAt(line, p) # NoCoding}
    IN  IF hits = {} THEN NoCoding
        ELSE MatchAt(line, CHOOSE p \in hits : \A q \in hits : p <= q)

\* The number of lines the detection reads: xrange(2).
XRange == 2

\* fh.readline(): the i-th line of the file, '' past its end.
ReadLine(content, i) == IF i <= Len(content) THEN content[i] ELSE <<>>

RECURSIVE ScanLinesThree(_, _)
\* A detection that reads one line more than xrange(2) allows.
ScanLinesThree(content, i) ==
    IF i > XRange + 1 THEN NoCoding
    ELSE LET match == ReSearch(ReadLine(content, i))
         IN  IF match # NoCoding THEN match
             ELSE ScanLinesThree(content, i + 1)

RECURSIVE ScanLines(_, _)
\* The for/else of the detection from its i-th round on: the first match
\* breaks with its group; the loop running out yields None.
ScanLines(content, i) ==
    IF i > XRange THEN NoCoding
    ELSE LET match == ReSearch(ReadLine(content, i))
         IN  IF match # NoCoding THEN match
             ELSE ScanLines(content, i + 1)

\* The coding that git_hook detects in an open file.
DetectCoding(content) == ScanLines(content, 1)

\* ------------------------------------------------------------- codecs

\* Bytes above 0x7F of the model's alphabet.
HighBytes == {"xE9", "xC3", "xA9", "xC2", "x83"}

Latin1 == <<"l", "1">>
Utf8 == <<"u", "8">>
\* The codec names the codec registry knows; any other raises LookupError.
KnownCodecs == {Latin1, Utf8}

\* The code point a latin-1 byte decodes to.
Latin1Char(b) ==
    CASE b = "xE9" -> "U+00E9"
      [] b = "xC3" -> "U+00C3"
      [] b = "xA9" -> "U+00A9"
      [] OTHER -> b

\* The byte a character encodes to under latin-1.
Latin1Byte(c) ==
    CASE c = "U+00E9" -> "xE9"
      [] c = "U+00C3" -> "xC3"
      [] c = "U+00A9" -> "xA9"
      [] OTHER -> c

RECURSIVE Utf8Valid(_)
\* Whether a byte string is well-formed UTF-8 (0xC3 0xA9 is the one
\* multi-byte sequence of the alphabet).
Utf8Valid(bs) ==
    IF bs = <<>> THEN TRUE
    ELSE IF bs[1] \notin HighBytes THEN Utf8Valid(Tail(bs))
    ELSE Len(bs) >= 2 /\ bs[1] = "xC3" /\ bs[2] = "xA9"
         /\ Utf8Valid(Drop(bs, 2))

RECURSIVE Utf8Decode(_)
Utf8Decode(bs) ==
    IF bs = <<>> THEN <<>>
    ELSE IF bs[1] \notin HighBytes THEN <<bs[1]>> \o Utf8Decode(Tail(bs))
    ELSE <<"U+00E9">> \o Utf8Decode(Drop(bs, 2))

RECURSIVE Utf8Encode(_)
Utf8Encode(cs) ==
    IF cs = <<>> THEN <<>>
    ELSE (CASE cs[1] = "U+00E9" -> <<"xC3", "xA9">>
            [] cs[1] = "U+00C3" -> <<"xC3", "x83">>
            [] cs[1] = "U+00A9" -> <<"xC2", "xA9">>
            [] OTHER -> <<cs[1]>>) \o Utf8Encode(Tail(cs))

\* Whether bytes.decode(coding) succeeds on one line; the default codec
\* (coding None) is ascii.
Decodable(bs, coding) ==
    CASE coding = Latin1 -> TRUE
      [] coding = Utf8 -> Utf8Valid(bs)
      [] OTHER -> \A j \in 1..Len(bs) : bs[j] \notin HighBytes

\* bytes.decode(coding) of one line.
DecodeLine(bs, coding) ==
    CASE coding = Latin1 -> [j \in 1..Len(bs) |-> Latin1Char(bs[j])]
      [] coding = Utf8 -> Utf8Decode(bs)
      [] OTHER -> bs

\* text.encode(coding) of one line.
EncodeLine(cs, coding) ==
    CASE coding = Latin1 -> [j \in 1..Len(cs) |-> Latin1Byte(cs[j])]
      [] coding = Utf8 -> Utf8Encode(cs)
      [] OTHER -> cs

\* Lines of source files.
LinePlain == <<"x">>
LineLatin1 == <<"#", "c", "o", "d", "i", "n", "g", ":", "l", "1">>
LineUtf8 == <<"#", " ", "c", "o", "d", "i", "n", "g", "=", " ", "u", "8">>
LineUnknown == <<"#", "c", "o", "d", "i", "n", "g", ":", "z", "z">>
LineBare == <<"c", "o", "d", "i", "n", "g", ":", " ">>
LineHigh == <<"#", "xE9">>
LineAccent == <<"#", "xC3", "xA9">>

\* What the index records for a changed file (git show :file).
IndexContents ==
    { <<LinePlain>>,
      <<LineLatin1, LineHigh>>,
      <<LineUtf8, LineAccent>>,
      <<LineHigh>> }

\* What a changed file holds in the working tree.
TreeContents ==
    IndexContents \cup
    { <<>>,
      <<LineBare>>,
      <<LinePlain, LineLatin1>>,
      <<LineUtf8, LineLatin1>>,
      <<LinePlain, LinePlain, LineLatin1>>,
      <<LineUnknown>> }

\* A changed file in the working tree: absent (deleted after it was staged)
\* or present with its lines.
TreeFiles ==
    {[exists |-> FALSE, lines |-> <<>>]}
        \cup {[exists |-> TRUE, lines |-> c] : c \in TreeContents}

\* --------------------------------------- staging one file (hooks.py 58-86)

\* Lines 60-71 and 82-83: the coding is detected in the open working-tree
\* file, run() decodes the output of git show with it (ascii without one),
\* and the text is encoded again when a coding was found.  exc names the
\* exception a step raises, coding the detected coding, bytes what is
\* written when nothing is raised.
StagedVersion(tree, index) ==
    IF ~tree.exists
    THEN [exc |-> "IOError", coding |-> NoCoding, bytes |-> <<>>]
    ELSE LET coding == DetectCoding(tree.lines)
         IN  IF coding # NoCoding /\ coding \notin KnownCodecs
             THEN [exc |-> "LookupError", coding |-> coding, bytes |-> <<>>]
             ELSE IF \E k \in 1..Len(index) : ~Decodable(index[k], coding)
             THEN [exc |-> "UnicodeDecodeError", coding |-> coding,
                   bytes |-> <<>>]
             ELSE [exc |-> "none", coding |-> coding,
                   bytes |-> [k \in 1..Len(index) |->
                        LET out == DecodeLine(index[k], coding)
                        IN  IF coding # NoCoding
                            THEN EncodeLine(out, coding) ELSE out]]

\* Lines 74-80: the path the staged version of file_ is written to.
MaterializedPath(dir, file_, tmp) ==
    LET parts == PathSplit(Abspath(dir, file_))
        prefix == CommonPrefix(parts[1], tmp)
        dirname == PathJoin(tmp, Relpath(parts[1], prefix))
    IN  PathJoin(dirname, parts[2])

\* Whether path p, normalized, lies strictly below directory d.
Inside(p, d) ==
    LET pc_ == NormComps(p)
        dc == NormComps(d)
    IN  Len(dc) < Len(pc_) /\ IsPrefix(dc, pc_)

\* ------------------------------------------------- checkers (run.py 21-38)

\* Diagnostic codes of the three checkers.
CodeW402 == <<"W", "4", "0", "2">>
CodeE401 == <<"E", "4", "0", "1">>
CodeC901 == <<"C", "9", "0", "1">>

\* What each checker finds in one file, as the codes of its diagnostics.
SemanticFindings == {<<>>, <<CodeW402>>}
StyleFindings == {<<>>, <<CodeE401>>}
ComplexityFindings == {<<>>, <<CodeC901>>}

\* Ignore sets: codes and prefixes of codes.
IgnoreSets == {{}, {<<"E", "4">>}, {<<"W">>, CodeC901}}

\* The value of complexity that disables the complexity checker.
Disabled == -1
Thresholds == {Disabled, 10}

\* Whether an entry of the ignore set matches the code, exactly or as a
\* prefix.
Ignored(code, ign) == \E e \in ign : IsPrefix(e, code)

\* The diagnostics a checker that is given the ignore set ign reports.
Retained(found, ign) == SelectSeq(found, LAMBDA code : ~Ignored(code, ign))

\* The diagnostics check_file and check_code count: those of the semantic
\* checker filtered by the ignore argument, those of the style guide
\* filtered by the style guide's own options, and, with complexity above
\* -1, those of the complexity checker as they come.
CheckedCodes(sem, sty, cx, ign, styleIgn, cplx) ==
    Retained(sem, ign) \o Retained(sty, styleIgn)
        \o (IF cplx > Disabled THEN cx ELSE <<>>)

\* -------------------------------------------------------------- the state

VARIABLES
    entry,          \* the function that was called
    pc,             \* where it stands
    strict,         \* the strict argument (hg: the strict setting)
    exit_zero,      \* main's --exit-zero
    ignore,         \* the ignore argument
    styleIgnore,    \* pep8style.options.ignore
    complexity,     \* the complexity argument
    vcs,            \* what running the listing command does
    listed,         \* the paths the backend lists (main: the paths given)
    cwd,            \* the working directory of the hook
    files_modified, \* the result of run(gitcmd), as git_hook keeps it
    i,              \* the index of the next file of the loop
    seen,           \* _get_files' seen
    tmpdir,         \* the staging root, <<>> before mkdtemp
    tmpExists,      \* whether the staging root is on disk
    rmtreeFailed,   \* whether shutil.rmtree met an error (and ignored it)
    filename,       \* hooks.git_hook's filename, <<>> while unbound
    files_to_check, \* hooks.git_hook's files_to_check
    staged,         \* the staged files so far: source, path written, findings
    last,           \* the inputs and the result of the last staging step
    report,         \* report.total_errors
    warnings,       \* run.py's warnings counter
    counted,        \* the codes of the diagnostics counted in warnings
    checked,        \* the paths check_file or check_code was called on
    raisedAt,       \* the loop index at which a checker raised, 0 if none
    pending,        \* the exception in flight, "none" if none
    outcome         \* how the call ended

vars == <<entry, pc, strict, exit_zero, ignore, styleIgnore, complexity, vcs,
          listed, cwd, files_modified, i, seen, tmpdir, tmpExists,
          rmtreeFailed, filename, files_to_check, staged, last, report,
          warnings, counted, checked, raisedAt, pending, outcome>>

\* The arguments and the environment of a call: they do not change.
params == <<entry, strict, exit_zero, ignore, complexity, vcs, listed, cwd>>

\* Paths, relative to the working directory.
NameU == <<"u", ".", "p", "y">>
NameMU == <<"m", "/", "u", ".", "p", "y">>
NameR == <<"r", ".", "m", "d">>
StdinPath == <<"-">>

ChangedNames == {NameU, NameMU, NameR}

\* Working directories of the hook, and the directories mkdtemp returns.
WorkDirs == { <<"/", "h">>, <<"/", "t">>, <<"/", "t", "/", "m", "B">> }
TmpDirs == { <<"/", "t", "/", "m", "A">> }

SeqsUpTo(S, n) == UNION {[1..k -> S] : k \in 0..n}
NoRepeat(s) == \A j, k \in 1..Len(s) : j # k => s[j] # s[k]

NoLast == [tree |-> [exists |-> FALSE, lines |-> <<>>], index |-> <<>>,
           result |-> [exc |-> "none", coding |-> NoCoding, bytes |-> <<>>],
           fresh |-> FALSE]

Running == [kind |-> "running", value |-> 0, exc |-> "none"]

InitCommon ==
    /\ pc = "start"
    /\ files_modified = <<>>
    /\ i = 1
    /\ seen = {}
    /\ tmpdir = <<>>
    /\ tmpExists = FALSE
    /\ rmtreeFailed = FALSE
    /\ filename = <<>>
    /\ files_to_check = <<>>
    /\ staged = <<>>
    /\ last = NoLast
    /\ report = 0
    /\ warnings = 0
    /\ counted = <<>>
    /\ checked = <<>>
    /\ raisedAt = 0
    /\ pending = "none"
    /\ outcome = Running

\* A call of git_hook of hooks.py.
InitHooksGit ==
    /\ entry = "hooks.git_hook"
    /\ strict \in BOOLEAN
    /\ exit_zero = FALSE
    /\ ignore = {}
    /\ styleIgnore = {}
    /\ complexity = Disabled
    /\ vcs \in {"ok", "failed", "unavailable"}
    /\ listed \in {s \in SeqsUpTo(ChangedNames, MaxFiles) :
                       NoRepeat(s) /\ (vcs # "ok" => s = <<>>)}
    /\ cwd \in WorkDirs

\* A call of git_hook of run.py.
InitRunGit ==
    /\ entry = "run.git_hook"
    /\ strict \in BOOLEAN
    /\ exit_zero = FALSE
    /\ ignore \in IgnoreSets
    /\ styleIgnore = {}
    /\ complexity \in Thresholds
    /\ vcs \in {"ok", "failed", "unavailable"}
    /\ listed \in {s \in SeqsUpTo(ChangedNames, MaxFiles) :
                       NoRepeat(s) /\ (vcs # "ok" => s = <<>>)}
    /\ cwd = <<"/", "h">>

\* A call of hg_hook of run.py: listed holds the files of the revisions, in
\* order, a file once for every revision that touches it.
InitRunHg ==
    /\ entry = "run.hg_hook"
    /\ strict \in BOOLEAN
    /\ exit_zero = FALSE
    /\ ignore = {}
    /\ styleIgnore \in IgnoreSets
    /\ complexity \in Thresholds
    /\ vcs = "ok"
    /\ listed \in SeqsUpTo(ChangedNames, MaxFiles)
    /\ cwd = <<"/", "h">>

\* A run of main of run.py: listed holds pep8style.paths.
InitMain ==
    /\ entry = "run.main"
    /\ strict = FALSE
    /\ exit_zero \in BOOLEAN
    /\ ignore \in IgnoreSets
    /\ styleIgnore = ignore
    /\ complexity \in Thresholds
    /\ vcs = "ok"
    /\ listed \in {s \in SeqsUpTo({NameU, NameMU, StdinPath}, MaxFiles) :
                       NoRepeat(s)}
    /\ cwd = <<"/", "h">>

Init == InitCommon /\ (InitHooksGit \/ InitRunGit \/ InitRunHg \/ InitMain)

\* ------------------------------------------ git_hook of hooks.py (25-97)

PyOnly(names) == SelectSeq(names, LAMBDA f : EndsWith(f, DotPy))

\* The stdout lines of run(gitcmd): a command that fails prints nothing to
\* stdout, and run() drops its return code.
RunStdout == IF vcs = "ok" THEN listed ELSE <<>>

\* An exception that leaves git_hook at once, as without the finally clause.
AfterRaiseNoFinally == "leave"

\* Where an exception raised inside the try block (lines 57-89) goes: to the
\* finally clause.
AfterRaise == "finally"

\* shutil.rmtree(tmpdir, ignore_errors=True): whether the directory is still
\* on disk afterwards; ok tells whether the removal met no error.
Rmtree(ok) == ~ok

RECURSIVE FindingsAt(_, _)
\* The number of diagnostics of the file at path p: the findings of the
\* version that was written there last.
FindingsAt(p, written) ==
    IF written = <<>> THEN 0
    ELSE LET r == written[Len(written)]
         IN  IF Normpath(r.path) = Normpath(p) THEN r.issues
             ELSE FindingsAt(p, Take(written, Len(written) - 1))

RECURSIVE TotalErrors(_, _)
\* report.total_errors of check_files(paths).
TotalErrors(paths, written) ==
    IF paths = <<>> THEN 0
    ELSE FindingsAt(Head(paths), written) + TotalErrors(Tail(paths), written)

\* Lines 38-48: the changed files are listed and filtered.  Popen raises
\* OSError when there is no git to run.
HooksList ==
    /\ pc = "start"
    /\ entry = "hooks.git_hook"
    /\ IF vcs = "unavailable"
       THEN /\ pending' = "OSError"
            /\ pc' = "leave"
            /\ UNCHANGED files_modified
       ELSE /\ files_modified' = PyOnly(RunStdout)
            /\ pc' = "mkdtemp"
            /\ UNCHANGED pending
    /\ UNCHANGED <<params, styleIgnore, i, seen, tmpdir, tmpExists,
                   rmtreeFailed, filename, files_to_check, staged, last,
                   report, warnings, counted, checked, raisedAt, outcome>>

\* Lines 54-56.
HooksMkdtemp ==
    /\ pc = "mkdtemp"
    /\ \E t \in TmpDirs : tmpdir' = t
    /\ tmpExists' = TRUE
    /\ pc' = "stage"
    /\ UNCHANGED <<params, styleIgnore, files_modified, i, seen, rmtreeFailed,
                   filename, files_to_check, staged, last, report, warnings,
                   counted, checked, raisedAt, pending, outcome>>

\* Lines 58-86, one round of the loop: the file is staged, or a step raises.
HooksStageFile ==
    /\ pc = "stage"
    /\ i <= Len(files_modified)
    /\ \E tree \in TreeFiles, index \in IndexContents, n \in 0..MaxIssues :
          LET file_ == files_modified[i]
              r == StagedVersion(tree, index)
          IN  /\ last' = [tree |-> tree, index |-> index, result |-> r,
                          fresh |-> TRUE]
              /\ IF r.exc # "none"
                 THEN /\ n = 0
                      /\ pending' = r.exc
                      /\ pc' = AfterRaise
                      /\ UNCHANGED <<staged, filename, i>>
                 ELSE /\ filename' = MaterializedPath(cwd, file_, tmpdir)
                      /\ staged' = Append(staged,
                             [src |-> file_, path |-> filename', issues |-> n])
                      /\ i' = i + 1
                      /\ UNCHANGED <<pending, pc>>
    /\ UNCHANGED <<params, styleIgnore, files_modified, seen, tmpdir,
                   tmpExists, rmtreeFailed, files_to_check, report, warnings,
                   counted, checked, raisedAt, outcome>>

\* Lines 78-79 and 85-86: os.makedirs, open or write fails.
HooksWriteFails ==
    /\ pc = "stage"
    /\ i <= Len(files_modified)
    /\ pending' = "WriteError"
    /\ pc' = AfterRaise
    /\ last' = NoLast
    /\ UNCHANGED <<params, styleIgnore, files_modified, i, seen, tmpdir,
                   tmpExists, rmtreeFailed, filename, files_to_check, staged,
                   report, warnings, counted, checked, raisedAt, outcome>>

\* Line 87, after the loop: filename is the path of the last file staged,
\* and is not bound when the loop ran no round.
HooksAppend ==
    /\ pc = "stage"
    /\ i > Len(files_modified)
    /\ last' = NoLast
    /\ IF filename = <<>>
       THEN /\ pending' = "NameError"
            /\ pc' = AfterRaise
            /\ UNCHANGED files_to_check
       ELSE /\ files_to_check' = Append(files_to_check, filename)
            /\ pc' = "check"
            /\ UNCHANGED pending
    /\ UNCHANGED <<params, styleIgnore, files_modified, i, seen, tmpdir,
                   tmpExists, rmtreeFailed, filename, staged, report,
                   warnings, counted, checked, raisedAt, outcome>>

\* Line 89: check_files returns its report.
HooksCheckFiles ==
    /\ pc = "check"
    /\ report' = TotalErrors(files_to_check, staged)
    /\ checked' = files_to_check
    /\ pc' = "finally"
    /\ UNCHANGED <<params, styleIgnore, files_modified, i, seen, tmpdir,
                   tmpExists, rmtreeFailed, filename, files_to_check, staged,
                   last, warnings, counted, raisedAt, pending, outcome>>

\* Line 89: a checker raises inside check_files.
HooksCheckRaises ==
    /\ pc = "check"
    /\ pending' = "CheckerError"
    /\ raisedAt' = 1
    /\ pc' = AfterRaise
    /\ UNCHANGED <<params, styleIgnore, files_modified, i, seen, tmpdir,
                   tmpExists, rmtreeFailed, filename, files_to_check, staged,
                   last, report, warnings, counted, checked, outcome>>

\* Lines 91-92: the finally clause.
HooksFinally ==
    /\ pc = "finally"
    /\ \E ok \in BOOLEAN :
          /\ tmpExists' = Rmtree(ok)
          /\ rmtreeFailed' = ~ok
    /\ pc' = "leave"
    /\ UNCHANGED <<params, styleIgnore, files_modified, i, seen, tmpdir,
                   filename, files_to_check, staged, last, report, warnings,
                   counted, checked, raisedAt, pending, outcome>>

\* Lines 94-97 (run.py 204-207, 220-223): the value a hook returns.
StrictValue(flag, count) == IF flag THEN count ELSE 0

\* Lines 94-97, or the exception in flight leaves git_hook.
HooksLeave ==
    /\ pc = "leave"
    /\ entry = "hooks.git_hook"
    /\ outcome' = IF pending # "none"
                  THEN [kind |-> "raise", value |-> 0, exc |-> pending]
                  ELSE [kind |-> "return", value |-> StrictValue(strict, report),
                        exc |-> "none"]
    /\ pc' = "done"
    /\ UNCHANGED <<params, styleIgnore, files_modified, i, seen, tmpdir,
                   tmpExists, rmtreeFailed, filename, files_to_check, staged,
                   last, report, warnings, counted, checked, raisedAt,
                   pending>>

\* ------------------------------------------------------------- run.py

\* os.path.splitext(name)[-1]: from the last dot of the last component on,
\* leading dots apart.
Ext(name) ==
    LET base == PathSplit(<<Slash>> \o name)[2]
        dots == {k \in 2..Len(base) : base[k] = Dot}
    IN  IF dots = {} THEN <<>>
        ELSE Drop(base, (CHOOSE k \in dots : \A m \in dots : m <= k) - 1)

\* check_file(path, ign, cplx) (lines 21-29), called in a loop at index i,
\* or check_code (lines 32-38) with no exclusion: an excluded path counts 0;
\* else the checkers run in turn and their counts add up, or one of them
\* raises and the exception leaves check_file.  Control goes to `next`
\* after a return.
CheckFile(path, ign, cplx, exclusions, next) ==
    \E excluded \in exclusions, raises \in BOOLEAN,
       sem \in SemanticFindings, sty \in StyleFindings,
       cx \in ComplexityFindings :
        LET codes == CheckedCodes(sem, sty, cx, ign, styleIgnore, cplx)
        IN  /\ checked' = Append(checked, path)
            /\ IF excluded
               THEN /\ ~raises /\ sem = <<>> /\ sty = <<>> /\ cx = <<>>
                    /\ pc' = next
                    /\ i' = i + 1
                    /\ UNCHANGED <<warnings, counted, pending, raisedAt>>
               ELSE IF raises
               THEN /\ sem = <<>> /\ sty = <<>> /\ cx = <<>>
                    /\ pending' = "CheckerError"
                    /\ raisedAt' = i
                    /\ pc' = "leave"
                    /\ UNCHANGED <<warnings, counted, i>>
               ELSE /\ warnings' = warnings + Len(codes)
                    /\ counted' = counted \o codes
                    /\ pc' = next
                    /\ i' = i + 1
                    /\ UNCHANGED <<pending, raisedAt>>

\* git_hook, lines 184-194.
RunGitList ==
    /\ pc = "start"
    /\ entry = "run.git_hook"
    /\ styleIgnore' = IF ignore # {} THEN ignore ELSE styleIgnore
    /\ IF vcs = "unavailable"
       THEN /\ pending' = "OSError"
            /\ pc' = "leave"
            /\ UNCHANGED files_modified
       ELSE /\ files_modified' = RunStdout
            /\ pc' = "loop"
            /\ UNCHANGED pending
    /\ UNCHANGED <<params, i, seen, tmpdir, tmpExists, rmtreeFailed, filename,
                   files_to_check, staged, last, report, warnings, counted,
                   checked, raisedAt, outcome>>

\* git_hook, lines 195-202: one round of the loop.
RunGitNext ==
    /\ pc = "loop"
    /\ entry = "run.git_hook"
    /\ i <= Len(files_modified)
    /\ \E exists \in BOOLEAN :
          IF Ext(files_modified[i]) # DotPy \/ ~exists
          THEN /\ i' = i + 1
               /\ UNCHANGED <<pc, warnings, counted, checked, pending,
                              raisedAt>>
          ELSE CheckFile(files_modified[i], ignore, complexity, {FALSE, TRUE},
                         "loop")
    /\ UNCHANGED <<params, styleIgnore, files_modified, seen, tmpdir,
                   tmpExists, rmtreeFailed, filename, files_to_check, staged,
                   last, report, outcome>>

\* hg_hook, lines 215-216, with _get_files (lines 128-140): one file of the
\* revisions.  check_file(file_, complexity) binds complexity to the ignore
\* parameter, which holds no diagnostic code then, and leaves the
\* complexity parameter at -1.
RunHgNext ==
    /\ pc = "start" \/ pc = "loop"
    /\ entry = "run.hg_hook"
    /\ i <= Len(listed)
    /\ \E exists \in BOOLEAN, skip_file \in BOOLEAN :
          LET file_ == listed[i]
          IN  IF file_ \in seen \/ ~exists
              THEN /\ ~skip_file
                   /\ i' = i + 1
                   /\ pc' = "loop"
                   /\ UNCHANGED <<seen, warnings, counted, checked, pending,
                                  raisedAt>>
              ELSE /\ seen' = seen \cup {file_}
                   /\ IF ~EndsWith(file_, DotPy) \/ skip_file
                      THEN /\ i' = i + 1
                           /\ pc' = "loop"
                           /\ UNCHANGED <<warnings, counted, checked, pending,
                                          raisedAt>>
                      ELSE CheckFile(file_, {}, Disabled, {FALSE, TRUE},
                                     "loop")
    /\ UNCHANGED <<params, styleIgnore, files_modified, tmpdir, tmpExists,
                   rmtreeFailed, filename, files_to_check, staged, last,
                   report, outcome>>

\* git_hook lines 204-207 and hg_hook lines 218-223, or the exception in
\* flight leaves the hook.
RunLeave ==
    /\ entry \in {"run.git_hook", "run.hg_hook"}
    /\ \/ pc = "leave"
       \/ pc = "loop" /\ entry = "run.git_hook" /\ i > Len(files_modified)
       \/ pc \in {"start", "loop"} /\ entry = "run.hg_hook" /\ i > Len(listed)
    /\ outcome' = IF pending # "none"
                  THEN [kind |-> "raise", value |-> 0, exc |-> pending]
                  ELSE [kind |-> "return",
                        value |-> StrictValue(strict, warnings),
                        exc |-> "none"]
    /\ pc' = "done"
    /\ UNCHANGED <<params, styleIgnore, files_modified, i, seen, tmpdir,
                   tmpExists, rmtreeFailed, filename, files_to_check, staged,
                   last, report, warnings, counted, checked, raisedAt,
                   pending>>

\* main, lines 110-117: one path of _get_python_files (lines 41-56), which
\* yields a path that is not a directory unless skip_file holds of it and
\* it is not excluded.  read_stdin (lines 59-66) exits with 1 when no input
\* arrives.
MainNext ==
    /\ pc = "start" \/ pc = "loop"
    /\ entry = "run.main"
    /\ listed # <<>>
    /\ i <= Len(listed)
    /\ \E skip_file \in BOOLEAN, excluded \in BOOLEAN, input \in BOOLEAN :
          IF skip_file /\ ~excluded
          THEN /\ input
               /\ i' = i + 1
               /\ pc' = "loop"
               /\ UNCHANGED <<warnings, counted, checked, pending, raisedAt>>
          ELSE IF listed[i] = StdinPath
          THEN IF input
               THEN /\ ~excluded
                    /\ CheckFile(StdinPath, ignore, complexity, {FALSE},
                                 "loop")
               ELSE /\ ~excluded
                    /\ pending' = "SystemExit"
                    /\ pc' = "leave"
                    /\ UNCHANGED <<i, warnings, counted, checked, raisedAt>>
          ELSE /\ input
               /\ CheckFile(listed[i], ignore, complexity, {excluded}, "loop")
    /\ UNCHANGED <<params, styleIgnore, files_modified, seen, tmpdir,
                   tmpExists, rmtreeFailed, filename, files_to_check, staged,
                   last, report, outcome>>

\* main, lines 118-120: no path was given and the code is read from stdin.
MainStdin ==
    /\ pc = "start"
    /\ entry = "run.main"
    /\ listed = <<>>
    /\ \E input \in BOOLEAN :
          IF input
          THEN CheckFile(StdinPath, ignore, complexity, {FALSE}, "leave")
          ELSE /\ pending' = "SystemExit"
               /\ pc' = "leave"
               /\ UNCHANGED <<i, warnings, counted, checked, raisedAt>>
    /\ UNCHANGED <<params, styleIgnore, files_modified, seen, tmpdir,
                   tmpExists, rmtreeFailed, filename, files_to_check, staged,
                   last, report, outcome>>

\* main, lines 122-125: the exit status, or the exception in flight leaves
\* main (read_stdin's SystemExit(1) among them).
MainExit ==
    /\ entry = "run.main"
    /\ \/ pc = "leave"
       \/ pc = "loop" /\ i > Len(listed)
    /\ outcome' =
          IF pending = "SystemExit"
          THEN [kind |-> "exit", value |-> 1, exc |-> "none"]
          ELSE IF pending # "none"
          THEN [kind |-> "raise", value |-> 0, exc |-> pending]
          ELSE [kind |-> "exit",
                value |-> IF exit_zero THEN 0 ELSE warnings,
                exc |-> "none"]
    /\ pc' = "done"
    /\ UNCHANGED <<params, styleIgnore, files_modified, i, seen, tmpdir,
                   tmpExists, rmtreeFailed, filename, files_to_check, staged,
                   last, report, warnings, counted, checked, raisedAt,
                   pending>>

Next ==
    \/ HooksList
    \/ HooksMkdtemp
    \/ HooksStageFile
    \/ HooksWriteFails
    \/ HooksAppend
    \/ HooksCheckFiles
    \/ HooksCheckRaises
    \/ HooksFinally
    \/ HooksLeave
    \/ RunGitList
    \/ RunGitNext
    \/ RunHgNext
    \/ RunLeave
    \/ MainNext
    \/ MainStdin
    \/ MainExit

Spec == Init /\ [][Next]_vars

\* -------------------------------------------------------------- claims

HooksDone == entry = "hooks.git_hook" /\ pc = "done"

\* C1: once mkdtemp has made the staging root, git_hook of hooks.py is not
\* left before the finally clause has handed it to rmtree: when git_hook
\* is left the staging root is gone unless rmtree itself met an error, and
\* the finally clause changes nothing about how git_hook is left (the
\* exception in flight, or the normal return, stays what it was), so an
\* error of the removal never reaches the caller.
C1_StagingRootRemoved ==
    /\ [](HooksDone /\ tmpdir # <<>> =>
              /\ tmpExists => rmtreeFailed
              /\ outcome.exc = pending
              /\ pending = "none" => outcome.kind = "return")
    /\ [][pc = "finally" => pending' = pending]_vars

\* C1, its case: the checker raised inside check_files, the exception left
\* git_hook and the staging root is gone.
C1_Witness ==
    /\ HooksDone
    /\ tmpdir # <<>>
    /\ ~tmpExists
    /\ outcome.kind = "raise"
    /\ outcome.exc = "CheckerError"

RECURSIVE SumIssues(_)
SumIssues(written) ==
    IF written = <<>> THEN 0
    ELSE Head(written).issues + SumIssues(Tail(written))

\* C2: when check_files has returned, files_to_check held one materialized
\* path for every changed .py file, in order, and the total of the report is
\* the number of diagnostics of all the staged files.
C2_EveryChangedFileChecked ==
    entry = "hooks.git_hook" /\ pc \in {"finally", "leave", "done"}
        /\ pending = "none" =>
            /\ Len(files_to_check) = Len(files_modified)
            /\ files_to_check = [k \in 1..Len(staged) |-> staged[k].path]
            /\ report = SumIssues(staged)

\* The exceptions that the environment of a hook causes: no git to run, a
\* changed file that cannot be opened, decoded or written.
EnvironmentErrors ==
    {"OSError", "IOError", "LookupError", "UnicodeDecodeError", "WriteError"}

\* C3: a hook that met no exception of a checker (and none of its
\* environment) returns normally, with the total of the report (hooks.py)
\* or the accumulated warnings (run.py) when strict and with 0 otherwise.
C3_ReturnsStrictValue ==
    pc = "done" /\ entry \in {"hooks.git_hook", "run.git_hook", "run.hg_hook"}
        /\ raisedAt = 0 /\ pending \notin EnvironmentErrors =>
            /\ outcome.kind = "return"
            /\ outcome.value =
                   IF ~strict THEN 0
                   ELSE IF entry = "hooks.git_hook" THEN report ELSE warnings

\* C4: what a staging step of git_hook of hooks.py does (the bytes it
\* writes or the exception it raises) is the same for every working-tree
\* state of the file, the content of the index being the same.
C4_IndexContentOnly ==
    last.fresh =>
        \A tree \in TreeFiles :
            LET other == StagedVersion(tree, last.index)
            IN  /\ other.exc = last.result.exc
                /\ other.bytes = last.result.bytes

\* C5: every staged version is written to a path inside the staging root,
\* and never onto the working-tree file it is the staged version of.
C5_WritesInsideStagingRoot ==
    \A k \in 1..Len(staged) :
        /\ Inside(staged[k].path, tmpdir)
        /\ Normpath(staged[k].path) # Abspath(cwd, staged[k].src)

\* C6: within one run, two changed files with distinct absolute paths are
\* written to distinct materialized paths.
C6_MaterializedPathsDistinct ==
    \A j, k \in 1..Len(staged) :
        Abspath(cwd, staged[j].src) # Abspath(cwd, staged[k].src) =>
            Normpath(staged[j].path) # Normpath(staged[k].path)

\* C7: when the command that lists the changed files fails, git_hook (of
\* hooks.py and of run.py) makes no staging root, checks nothing, and ends
\* with a failure, never with a returned value.
C7_ListingFailureAborts ==
    entry \in {"hooks.git_hook", "run.git_hook"} /\ vcs # "ok" =>
        /\ tmpdir = <<>>
        /\ checked = <<>>
        /\ pc = "done" => outcome.kind = "raise"

\* C8: in main, git_hook and hg_hook of run.py, after a checker raised on
\* one file the loop still went through the files after it, no exception
\* left the function, and the final count is at least 1.
C8_RaiseDoesNotAbort ==
    pc = "done" /\ entry \in {"run.main", "run.git_hook", "run.hg_hook"}
        /\ raisedAt > 0 =>
            /\ outcome.kind # "raise"
            /\ i > Len(IF entry = "run.git_hook" THEN files_modified
                       ELSE listed)
            /\ warnings >= 1

\* C9: no diagnostic that check_file or check_code of run.py counts has a
\* code that an entry of the ignore set they were given matches.
C9_NoIgnoredCodeCounted ==
    entry \in {"run.main", "run.git_hook", "run.hg_hook"} =>
        \A k \in 1..Len(counted) : ~Ignored(counted[k], ignore)

\* The lines among the first two of a file that hold a declaration.
DeclaringLines(lines) ==
    {k \in 1..2 : k <= Len(lines) /\ ReSearch(lines[k]) # NoCoding}

\* C10: the coding git_hook of hooks.py detects in an open file is the name
\* declared on the first of the file's first two lines that declares one,
\* and None when neither does (a shorter file and a declaration on a later
\* line included); with no declaration the detection raises nothing.
C10_FirstTwoLinesOnly ==
    last.fresh /\ last.tree.exists =>
        LET lines == last.tree.lines
            decl == DeclaringLines(lines)
        IN  IF decl = {}
            THEN /\ last.result.coding = NoCoding
                 /\ last.result.exc \notin {"IOError", "LookupError"}
            ELSE last.result.coding =
                     ReSearch(lines[CHOOSE k \in decl : \A m \in decl : k <= m])

\* C10, its case: the only declaration of the file is on its third line,
\* and no coding was detected.
C10_Witness ==
    /\ last.fresh
    /\ last.tree.lines = <<LinePlain, LinePlain, LineLatin1>>
    /\ last.result.coding = NoCoding
    /\ last.result.exc = "none"

====
